---- MODULE Spec2Model ----
(***************************************************************************)
(* Model of server/main.py of retro-planner: the users, sessions and tasks *)
(* tables, the startup hook with the one-time import of tasks.json, and    *)
(* the auth and task request handlers.                                     *)
(*                                                                         *)
(* Python strings the code takes apart (task text, e-mail, name, the       *)
(* Authorization header) are sequences of one-character strings; a session *)
(* token (uuid4().hex) is one opaque symbol of such a sequence.  Strings   *)
(* the code only stores and compares (category, project, date, password)   *)
(* are TLA+ strings.  Timestamps (datetime.utcnow().isoformat()) are       *)
(* integers ordered as the ISO strings are.  The Russian detail messages  *)
(* of the HTTP errors and the placeholder title are given in English, one  *)
(* distinct string for each distinct message of the source.                *)
(***************************************************************************)
EXTENDS Integers, Sequences, FiniteSets, TLC

\* ------------------------------------------------------------------ bounds
MaxTokens == 2     \* sessions ever issued
MaxTasks == 1      \* tasks ever created through the API
MaxClock == 1      \* distinct later readings of the clock

\* ------------------------------------------------------- python str helpers
WS == {" ", "\t", "\n"}

RECURSIVE lstrip(_)
lstrip(s) == IF s # <<>> /\ Head(s) \in WS THEN lstrip(Tail(s)) ELSE s

RECURSIVE rstrip(_)
rstrip(s) ==
  IF s # <<>> /\ s[Len(s)] \in WS THEN rstrip(SubSeq(s, 1, Len(s) - 1)) ELSE s

\* str.strip()
strip(s) == rstrip(lstrip(s))

\* str.split(): the maximal runs of non-whitespace characters, in order.
\* words: the words closed so far; cur: the word being read.
RECURSIVE split_from(_, _, _)
split_from(s, words, cur) ==
  IF s = <<>> THEN (IF cur = <<>> THEN words ELSE Append(words, cur))
  ELSE IF Head(s) \in WS
    THEN split_from(Tail(s), IF cur = <<>> THEN words ELSE Append(words, cur), <<>>)
    ELSE split_from(Tail(s), words, Append(cur, Head(s)))

split(s) == split_from(s, <<>>, <<>>)

\* " ".join(words)
RECURSIVE join(_)
join(words) ==
  IF words = <<>> THEN <<>>
  ELSE IF Len(words) = 1 THEN words[1]
  ELSE words[1] \o <<" ">> \o join(Tail(words))

lower_char(c) ==
  CASE c = "A" -> "a" [] c = "B" -> "b" [] c = "D" -> "d" [] OTHER -> c

\* str.lower()
lower(s) == [i \in 1..Len(s) |-> lower_char(s[i])]

\* str.startswith(prefix)
startswith(s, prefix) ==
  Len(s) >= Len(prefix) /\ SubSeq(s, 1, Len(prefix)) = prefix

\* s.split(" ", 1)[1]: what follows the first space of s (s holds one).
RECURSIVE after_first_space(_)
after_first_space(s) ==
  IF s = <<>> THEN <<>>
  ELSE IF Head(s) = " " THEN Tail(s) ELSE after_first_space(Tail(s))

\* ---------------------------------------------------------------- utilities
None == "None"                  \* Python None in a string-valued column
NoHeader == <<"<no header>">>   \* Header(None): the request has no Authorization
NoId == <<"none", 0>>
Placeholder == <<"<untitled>">> \* the placeholder title of line 169

TitleWords == 5

take(words, n) == SubSeq(words, 1, IF Len(words) < n THEN Len(words) ELSE n)

\* one word short
make_title_short(text) ==
  LET words == split(strip(text))
  IN IF words # <<>> THEN join(take(words, TitleWords - 1)) ELSE Placeholder

make_title(text) ==
  LET words == split(strip(text))
  IN IF words # <<>> THEN join(take(words, TitleWords)) ELSE Placeholder

PASSWORD_SALT == "retro-planner-salt"

\* sha256(salt + password).hexdigest(), taken as collision free
hash_password(password) == <<"sha256", PASSWORD_SALT, password>>

\* the digest of the attempt taken without the salt
verify_password_unsalted(password, password_hash) ==
  <<"sha256", "", password>> = password_hash

verify_password(password, password_hash) == hash_password(password) = password_hash

\* ------------------------------------------------------ the legacy tasks.json
\* A JSON object is a function from the keys it holds; an item of the list
\* that is no object (a number, a string, null) has object = FALSE.
JsonObject(fields) == [object |-> TRUE, fields |-> fields]
JsonOther == [object |-> FALSE, fields |-> <<>>]

\* dict.get(key, default)
get(t, key, default) == IF key \in DOMAIN t.fields THEN t.fields[key] ELSE default

OldText == <<"o", "l", "d", " ", "a">>

\* a full record: every key the import reads is present
LegacyFull ==
  JsonObject([id |-> <<"legacy", 1>>, text |-> OldText, title |-> <<"O">>,
              category |-> "home", project |-> "p", date |-> "2020-01-01",
              done |-> TRUE, createdAt |-> 0])

\* a minimal record: the body only
LegacyBare == JsonObject([text |-> OldText])

\* tasks.json: absent; not JSON; a JSON scalar; a list; an object.
NoFile == [kind |-> "absent", items |-> <<>>]
BadFile == [kind |-> "invalid", items |-> <<>>]
ScalarFile == [kind |-> "scalar", items |-> <<>>]
ListFile(items) == [kind |-> "list", items |-> items]
DictFile(items) == [kind |-> "dict", items |-> items]

\* ------------------------------------------------------------------- state
VARIABLES
  env,        \* the deployment: DATABASE_URL set or not, and tasks.json
  dbfile,     \* os.path.exists("tasks.db")
  app,        \* "down", "up" (on_startup returned) or "failed" (it raised)
  users,      \* table users: id -> row
  sessions,   \* table sessions: token -> user_id
  tasks,      \* table tasks: id -> row
  now,        \* the reading of datetime.utcnow()
  resp,       \* the response to the last request
  issued,     \* history: every token create_session returned -> its user
  revoked,    \* history: the issued tokens logout_user was called with
  made,       \* history: the ids of the task rows committed, in commit order
  registered, \* history: the credentials of every successful register_user
  inflight    \* the requests between two round trips to the store

vars ==
  <<env, dbfile, app, users, sessions, tasks, now, resp,
    issued, revoked, made, registered, inflight>>

store == <<users, sessions, tasks>>
history == <<issued, revoked, made, registered>>

\* a function as a set of rows
Put(f, k, v) == [x \in DOMAIN f \cup {k} |-> IF x = k THEN v ELSE f[x]]
Drop(f, ks) == [x \in DOMAIN f \ ks |-> f[x]]
Empty == [x \in {} |-> x]

\* generate_id(): a uuid4 string, taken as never drawn before
uuid_user(n) == <<"user", n>>
uuid_task(n) == <<"task", n>>
generate_user_id == uuid_user(Cardinality(DOMAIN users) + 1)
Range(seq) == {seq[i] : i \in 1..Len(seq)}
generated(ids) == {i \in Range(ids) : i[1] = "task"}
\* k-th draw of a request; no stored row holds a number above Len(made)
generate_task_id(k) == uuid_task(Len(made) + k)

\* uuid4().hex: one symbol of a header string
token_of(n) == <<ToString(n)>>

DemoEmail == <<"d", "e", "m", "o", "@", "l", "o", "c", "a", "l">>
DemoName == <<"D", "e", "m", "o", " ", "u", "s", "e", "r">>

UserORM(id, email, name, password_hash, created_at) ==
  [id |-> id, email |-> email, name |-> name,
   password_hash |-> password_hash, created_at |-> created_at]

TaskORM(id, text, title, category, project, date, done, createdAt, uid) ==
  [id |-> id, text |-> text, title |-> title, category |-> category,
   project |-> project, date |-> date, done |-> done,
   createdAt |-> createdAt, user_id |-> uid]

\* users.email is unique (line 51): some row already holds this e-mail
email_taken(us, email) == \E u \in DOMAIN us : us[u].email = email

\* What the last step answered: which handler (op), the source line it
\* returned or raised at, the HTTP status and detail, the authenticated or
\* returned user, the token returned, the task id named, the tasks returned.
Response(op, line, status, detail, user, token, task, body) ==
  [op |-> op, line |-> line, status |-> status, detail |-> detail,
   user |-> user, token |-> token, task |-> task, body |-> body]

\* the last step was no request
NoResponse == Response("none", 0, 0, "", NoId, <<>>, NoId, <<>>)

\* ---------------------------------------------------------------- startup
\* What one run of the import leaves: the two tables, the ids of the task
\* rows it committed, and whether it raised.
Migrated(us, ts, ids, raised) ==
  [users |-> us, tasks |-> ts, ids |-> ids, raised |-> raised]

\* lines 236-241: the records to import
tasks_data(file) ==
  IF file.kind \in {"list", "dict"} THEN file.items ELSE <<>>

\* an imported row left without an owner
legacy_row_orphan(t, k, demo_id, clock) ==
  TaskORM(get(t, "id", generate_task_id(k)), get(t, "text", <<>>),
          make_title(get(t, "text", <<>>)), "work", "", None, FALSE, clock, NoId)

\* lines 259-271: the row of the k-th record t, owned by the demo user
legacy_row(t, k, demo_id, clock) ==
  LET id == get(t, "id", NoId)
      text == get(t, "text", <<>>)
      title == get(t, "title", <<>>)
      category == get(t, "category", "")
      project == get(t, "project", "")
      stamp == get(t, "createdAt", -1)
      stamp2 == get(t, "created_at", -1)
  IN TaskORM(IF id # NoId THEN id ELSE generate_task_id(k),
             text,
             IF title # <<>> THEN title ELSE make_title(text),
             IF category # "" THEN category ELSE "work",
             project,
             get(t, "date", None),
             get(t, "done", FALSE),
             IF stamp # -1 THEN stamp ELSE IF stamp2 # -1 THEN stamp2 ELSE clock,
             demo_id)

unique_ids(rows) ==
  \A i, j \in 1..Len(rows) : rows[i].id = rows[j].id => i = j

\* the tasks.id primary key (line 72) admits the rows
insertable(ts, rows) ==
  unique_ids(rows) /\ \A i \in 1..Len(rows) : rows[i].id \notin DOMAIN ts

RECURSIVE put_rows(_, _)
put_rows(ts, rows) ==
  IF rows = <<>> THEN ts
  ELSE put_rows(Put(ts, Head(rows).id, Head(rows)), Tail(rows))

\* an import that adds the demo user whether or not demo@local is held
migrate_unchecked(file_exists) ==
  LET file == env.legacy
      data == tasks_data(file)
      demo_id == generate_user_id
      demo_user == UserORM(demo_id, DemoEmail, DemoName, hash_password("demo"), now)
      users1 == Put(users, demo_id, demo_user)
      rows == [k \in 1..Len(data) |-> legacy_row(data[k], k, demo_id, now)]
  IN IF file_exists \/ file.kind = "absent" THEN Migrated(users, tasks, <<>>, FALSE)
     ELSE IF file.kind = "invalid" THEN Migrated(users, tasks, <<>>, TRUE)
     ELSE IF (\E k \in 1..Len(data) : ~data[k].object) \/ ~insertable(tasks, rows)
       THEN Migrated(users1, tasks, <<>>, TRUE)
     ELSE Migrated(users1, put_rows(tasks, rows),
                   [k \in 1..Len(rows) |-> rows[k].id], FALSE)

\* migrate_from_file_if_needed, run with tasks.db present or not
migrate_from_file_if_needed(file_exists) ==
  LET file == env.legacy
      data == tasks_data(file)
      demo_id == generate_user_id
      demo_user == UserORM(demo_id, DemoEmail, DemoName, hash_password("demo"), now)
      users1 == Put(users, demo_id, demo_user)
      rows == [k \in 1..Len(data) |-> legacy_row(data[k], k, demo_id, now)]
  IN IF file_exists THEN Migrated(users, tasks, <<>>, FALSE)              \* 225
     ELSE IF file.kind = "absent" THEN Migrated(users, tasks, <<>>, FALSE) \* 228
     ELSE IF file.kind = "invalid" THEN Migrated(users, tasks, <<>>, TRUE) \* 234
     ELSE IF email_taken(users, DemoEmail)
       THEN Migrated(users, tasks, <<>>, TRUE)                           \* 255
     ELSE IF \E k \in 1..Len(data) : ~data[k].object
       THEN Migrated(users1, tasks, <<>>, TRUE)                          \* 260
     ELSE IF ~insertable(tasks, rows)
       THEN Migrated(users1, tasks, <<>>, TRUE)                          \* 273
     ELSE Migrated(users1, put_rows(tasks, rows),
                   [k \in 1..Len(rows) |-> rows[k].id], FALSE)

\* Base.metadata.create_all: connecting to sqlite:///./tasks.db creates the file
create_all == dbfile \/ ~env.dburl

on_startup ==
  /\ LET m == migrate_from_file_if_needed(create_all)
     IN /\ dbfile' = create_all
        /\ users' = m.users
        /\ tasks' = m.tasks
        /\ made' = made \o m.ids
        /\ app' = IF m.raised THEN "failed" ELSE "up"
  /\ resp' = NoResponse
  /\ UNCHANGED <<env, sessions, now, issued, revoked, registered>>

\* time passes
Tick ==
  /\ now' = now + 1
  /\ resp' = NoResponse
  /\ UNCHANGED <<env, dbfile, app, users, sessions, tasks,
                 issued, revoked, made, registered>>

\* ------------------------------------------------------------------- auth
Bearer == <<"B", "e", "a", "r", "e", "r", " ">>

\* the token a header carries (lines 201 and 355)
header_token(authorization) == strip(after_first_space(authorization))

\* `not authorization or not authorization.startswith("Bearer ")`
no_bearer(authorization) ==
  \/ authorization = NoHeader
  \/ authorization = <<>>
  \/ ~startswith(authorization, Bearer)

Unauthorized(line, detail) ==
  [line |-> line, status |-> 401, detail |-> detail, user |-> NoId]

\* the token looked up whatever the scheme of the header
get_current_user_any_scheme(authorization) ==
  LET token == header_token(authorization)
  IN IF authorization = NoHeader \/ token = <<>>
       THEN Unauthorized(199, "not authorized")
     ELSE IF token \notin DOMAIN sessions THEN Unauthorized(207, "token invalid")
     ELSE IF sessions[token] \notin DOMAIN users
       THEN Unauthorized(211, "user not found")
     ELSE [line |-> 213, status |-> 200, detail |-> "", user |-> sessions[token]]

\* get_current_user: the user row's id, or the 401 it raises
get_current_user(authorization) ==
  LET token == header_token(authorization)
  IN IF no_bearer(authorization) THEN Unauthorized(199, "not authorized")
     ELSE IF token = <<>> THEN Unauthorized(203, "not authorized")
     ELSE IF token \notin DOMAIN sessions THEN Unauthorized(207, "token invalid")
     ELSE IF sessions[token] \notin DOMAIN users
       THEN Unauthorized(211, "user not found")
     ELSE [line |-> 213, status |-> 200, detail |-> "", user |-> sessions[token]]

\* a token drawn from the live sessions only: a revoked one comes back
create_session_reused == token_of(Cardinality(DOMAIN sessions) + 1)

\* create_session: the fresh token; the row (token, user_id) is committed
create_session == token_of(Cardinality(DOMAIN issued) + 1)

\* the e-mail trimmed, its case kept
normal_email_cased(email) == strip(email)

\* payload.email.lower().strip()
normal_email(email) == strip(lower(email))

register_user(payload) ==
  LET email == normal_email(payload.email)
      id == generate_user_id
      name == IF strip(payload.name) # <<>> THEN strip(payload.name) ELSE email
      user == UserORM(id, email, name, hash_password(payload.password), now)
      token == create_session
  IN /\ app = "up"
     /\ IF email_taken(users, email)
        THEN /\ resp' = Response("register_user", 316, 400, "email exists",
                                 NoId, <<>>, NoId, <<>>)
             /\ UNCHANGED <<users, sessions, issued, registered>>
        ELSE /\ users' = Put(users, id, user)
             /\ sessions' = Put(sessions, token, id)
             /\ issued' = Put(issued, token, id)
             /\ registered' = registered \cup
                  {[email |-> payload.email, password |-> payload.password, id |-> id]}
             /\ resp' = Response("register_user", 332, 200, "", id, token, NoId, <<>>)
     /\ UNCHANGED <<env, dbfile, app, tasks, now, revoked, made>>

\* the user login_user finds and accepts, or NoId
authenticate(payload) ==
  LET email == normal_email(payload.email)
      found == {u \in DOMAIN users : users[u].email = email}
  IN IF found = {} THEN NoId
     ELSE LET u == CHOOSE u \in found : TRUE
          IN IF verify_password(payload.password, users[u].password_hash)
             THEN u ELSE NoId

\* a login that tells an unknown e-mail from a wrong password
login_user_telling(payload) ==
  LET id == authenticate(payload)
      token == create_session
  IN /\ app = "up"
     /\ IF id = NoId
        THEN /\ resp' = IF email_taken(users, normal_email(payload.email))
                        THEN Response("login_user", 341, 400, "bad email or password",
                                      NoId, <<>>, NoId, <<>>)
                        ELSE Response("login_user", 341, 404, "user not found",
                                      NoId, <<>>, NoId, <<>>)
             /\ UNCHANGED <<sessions, issued>>
        ELSE /\ sessions' = Put(sessions, token, id)
             /\ issued' = Put(issued, token, id)
             /\ resp' = Response("login_user", 344, 200, "", id, token, NoId, <<>>)
     /\ UNCHANGED <<env, dbfile, app, users, tasks, now, revoked, made,
                    registered>>

login_user(payload) ==
  LET id == authenticate(payload)
      token == create_session
  IN /\ app = "up"
     /\ IF id = NoId
        THEN /\ resp' = Response("login_user", 341, 400, "bad email or password",
                                 NoId, <<>>, NoId, <<>>)
             /\ UNCHANGED <<sessions, issued>>
        ELSE /\ sessions' = Put(sessions, token, id)
             /\ issued' = Put(issued, token, id)
             /\ resp' = Response("login_user", 344, 200, "", id, token, NoId, <<>>)
     /\ UNCHANGED <<env, dbfile, app, users, tasks, now, revoked, made,
                    registered>>

\* a logout that rejects a request without a usable header
logout_user_strict(authorization) ==
  LET token == header_token(authorization)
  IN /\ app = "up"
     /\ IF no_bearer(authorization) \/ token = <<>>
        THEN /\ resp' = Response("logout_user", 354, 401, "not authorized",
                                 NoId, <<>>, NoId, <<>>)
             /\ UNCHANGED <<sessions, revoked>>
        ELSE /\ sessions' = Drop(sessions, {token})
             /\ revoked' = revoked \cup ({token} \cap DOMAIN issued)
             /\ resp' = Response("logout_user", 360, 204, "", NoId, <<>>, NoId, <<>>)
     /\ UNCHANGED <<env, dbfile, app, users, tasks, now, issued, made,
                    registered>>

\* a logout that ends every session of the token's user
logout_user_everywhere(authorization) ==
  LET token == header_token(authorization)
      ended == IF token \in DOMAIN sessions
               THEN {t \in DOMAIN sessions : sessions[t] = sessions[token]}
               ELSE {token}
  IN /\ app = "up"
     /\ IF no_bearer(authorization) \/ token = <<>>
        THEN /\ resp' = Response("logout_user", 354, 204, "", NoId, <<>>, NoId, <<>>)
             /\ UNCHANGED <<sessions, revoked>>
        ELSE /\ sessions' = Drop(sessions, ended)
             /\ revoked' = revoked \cup ({token} \cap DOMAIN issued)
             /\ resp' = Response("logout_user", 360, 204, "", NoId, <<>>, NoId, <<>>)
     /\ UNCHANGED <<env, dbfile, app, users, tasks, now, issued, made,
                    registered>>

\* a logout that takes the tasks of the session's user with it
logout_user_purging(authorization) ==
  LET token == header_token(authorization)
      gone == IF token \in DOMAIN sessions
              THEN {t \in DOMAIN tasks : tasks[t].user_id = sessions[token]}
              ELSE {}
  IN /\ app = "up"
     /\ IF no_bearer(authorization) \/ token = <<>>
        THEN /\ resp' = Response("logout_user", 354, 204, "", NoId, <<>>, NoId, <<>>)
             /\ UNCHANGED <<sessions, revoked, tasks>>
        ELSE /\ sessions' = Drop(sessions, {token})
             /\ tasks' = Drop(tasks, gone)
             /\ revoked' = revoked \cup ({token} \cap DOMAIN issued)
             /\ resp' = Response("logout_user", 360, 204, "", NoId, <<>>, NoId, <<>>)
     /\ UNCHANGED <<env, dbfile, app, users, now, issued, made, registered>>

logout_user(authorization) ==
  LET token == header_token(authorization)
  IN /\ app = "up"
     /\ IF no_bearer(authorization)
        THEN /\ resp' = Response("logout_user", 354, 204, "", NoId, <<>>, NoId, <<>>)
             /\ UNCHANGED <<sessions, revoked>>
        ELSE IF token = <<>>
        THEN /\ resp' = Response("logout_user", 357, 204, "", NoId, <<>>, NoId, <<>>)
             /\ UNCHANGED <<sessions, revoked>>
        ELSE /\ sessions' = Drop(sessions, {token})
             /\ revoked' = revoked \cup ({token} \cap DOMAIN issued)
             /\ resp' = Response("logout_user", 360, 204, "", NoId, <<>>, NoId, <<>>)
     /\ UNCHANGED <<env, dbfile, app, users, tasks, now, issued, made,
                    registered>>

\* ------------------------------------------------------------------ tasks
\* the response model Task (lines 129-137): a row without its user_id
Task(row) ==
  [id |-> row.id, text |-> row.text, title |-> row.title,
   category |-> row.category, project |-> row.project, date |-> row.date,
   done |-> row.done, createdAt |-> row.createdAt]

owned(uid) == {t \in DOMAIN tasks : tasks[t].user_id = uid}

\* .order_by(TaskORM.createdAt).all(): every order of the rows that ascends
\* in createdAt; the query gives rows of equal createdAt no order
ordered_by_createdAt(ids) ==
  LET n == Cardinality(ids)
  IN {[i \in 1..n |-> Task(tasks[p[i]])] :
        p \in {q \in [1..n -> ids] :
                 /\ \A i, j \in 1..n : q[i] = q[j] => i = j
                 /\ \A i, j \in 1..n :
                      i < j => tasks[q[i]].createdAt <= tasks[q[j]].createdAt}}

\* the request ended in get_current_user
Rejected(op, auth) ==
  Response(op, auth.line, auth.status, auth.detail, NoId, <<>>, NoId, <<>>)

NotFound(op, line, uid, task) ==
  Response(op, line, 404, "task not found", uid, <<>>, task, <<>>)

get_tasks(authorization) ==
  LET auth == get_current_user(authorization)
  IN /\ app = "up"
     /\ IF auth.status # 200
        THEN resp' = Rejected("get_tasks", auth)
        ELSE \E body \in ordered_by_createdAt(owned(auth.user)) :
               resp' = Response("get_tasks", 378, 200, "", auth.user, <<>>, NoId, body)
     /\ UNCHANGED <<env, dbfile, app, users, sessions, tasks, now,
                    issued, revoked, made, registered>>

\* `x or default` of a string
or_default(x, default) == IF x # "" THEN x ELSE default

create_task(authorization, payload) ==
  LET auth == get_current_user(authorization)
      text == strip(payload.text)
      task == TaskORM(generate_task_id(1), text, make_title(text),
                      or_default(payload.category, "work"),
                      or_default(payload.project, ""),
                      payload.date, FALSE, now, auth.user)
  IN /\ app = "up"
     /\ IF auth.status # 200
        THEN /\ resp' = Rejected("create_task", auth)
             /\ UNCHANGED <<tasks, made>>
        ELSE IF text = <<>>
        THEN /\ resp' = Response("create_task", 389, 400, "empty text",
                                 auth.user, <<>>, NoId, <<>>)
             /\ UNCHANGED <<tasks, made>>
        ELSE /\ tasks' = Put(tasks, task.id, task)
             /\ made' = Append(made, task.id)
             /\ resp' = Response("create_task", 405, 200, "", auth.user, <<>>,
                                 task.id, <<Task(task)>>)
     /\ UNCHANGED <<env, dbfile, app, users, sessions, now, issued, revoked,
                    registered>>

\* a TaskPatch is a function from the fields that are not None
patched(patch, field, old) == IF field \in DOMAIN patch THEN patch[field] ELSE old

\* the patch taken as a full replacement: a field left out is reset
apply_patch_replacing(task, patch) ==
  [task EXCEPT
     !.text = patched(patch, "text", @),
     !.title = IF "text" \in DOMAIN patch THEN make_title(patch["text"]) ELSE @,
     !.category = patched(patch, "category", "work"),
     !.project = patched(patch, "project", ""),
     !.date = patched(patch, "date", None),
     !.done = patched(patch, "done", FALSE)]

\* lines 423-437: the row after the patch
apply_patch(task, patch) ==
  [task EXCEPT
     !.text = patched(patch, "text", @),
     !.title = IF "text" \in DOMAIN patch THEN make_title(patch["text"]) ELSE @,
     !.category = patched(patch, "category", @),
     !.project = patched(patch, "project", @),
     !.date = patched(patch, "date", @),
     !.done = patched(patch, "done", @)]

\* the row found by its id alone
own_task_any(task_id, uid) == task_id \in DOMAIN tasks

\* the row .filter(id == task_id, user_id == current_user.id).first() finds
own_task(task_id, uid) == task_id \in DOMAIN tasks /\ tasks[task_id].user_id = uid

update_task(authorization, task_id, patch) ==
  LET auth == get_current_user(authorization)
  IN /\ app = "up"
     /\ IF auth.status # 200
        THEN /\ resp' = Rejected("update_task", auth)
             /\ UNCHANGED tasks
        ELSE IF ~own_task(task_id, auth.user)
        THEN /\ resp' = NotFound("update_task", 421, auth.user, task_id)
             /\ UNCHANGED tasks
        ELSE /\ tasks' = [tasks EXCEPT ![task_id] = apply_patch(@, patch)]
             /\ resp' = Response("update_task", 441, 200, "", auth.user, <<>>,
                                 task_id, <<Task(tasks'[task_id])>>)
     /\ UNCHANGED <<env, dbfile, app, users, sessions, now, issued, revoked,
                    made, registered>>

\* the delete answered 204 with the row left in the table
delete_task_kept(authorization, task_id) ==
  LET auth == get_current_user(authorization)
  IN /\ app = "up"
     /\ IF auth.status # 200
        THEN /\ resp' = Rejected("delete_task", auth)
             /\ UNCHANGED tasks
        ELSE IF ~own_task(task_id, auth.user)
        THEN /\ resp' = NotFound("delete_task", 456, auth.user, task_id)
             /\ UNCHANGED tasks
        ELSE /\ UNCHANGED tasks
             /\ resp' = Response("delete_task", 460, 204, "", auth.user, <<>>,
                                 task_id, <<>>)
     /\ UNCHANGED <<env, dbfile, app, users, sessions, now, issued, revoked,
                    made, registered>>

delete_task(authorization, task_id) ==
  LET auth == get_current_user(authorization)
  IN /\ app = "up"
     /\ IF auth.status # 200
        THEN /\ resp' = Rejected("delete_task", auth)
             /\ UNCHANGED tasks
        ELSE IF ~own_task(task_id, auth.user)
        THEN /\ resp' = NotFound("delete_task", 456, auth.user, task_id)
             /\ UNCHANGED tasks
        ELSE /\ tasks' = Drop(tasks, {task_id})
             /\ resp' = Response("delete_task", 460, 204, "", auth.user, <<>>,
                                 task_id, <<>>)
     /\ UNCHANGED <<env, dbfile, app, users, sessions, now, issued, revoked,
                    made, registered>>

\* ----------------------------------------------------------------- inputs
EmailA == <<"a", "@", "x">>
EmailAUpper == <<"A", "@", "x">>
EmailB == <<"b", "@", "x">>

Credentials(email, name, password) ==
  [email |-> email, name |-> name, password |-> password]

RegisterPayloads ==
  {Credentials(EmailAUpper, <<"A", " ">>, "pw1"),
   Credentials(EmailA, <<" ">>, "pw2"),
   Credentials(EmailB, <<"B">>, "pw1")}

LoginPayloads ==
  {Credentials(EmailA, <<>>, "pw1"), Credentials(EmailA, <<>>, "pw2"),
   Credentials(EmailAUpper, <<>>, "pw1"),
   Credentials(EmailB, <<>>, "pw1"), Credentials(EmailB, <<>>, "pw2"),
   Credentials(DemoEmail, <<>>, "demo"), Credentials(DemoEmail, <<>>, "pw1")}

\* headers that carry no usable token: none, an empty one, "Bearer " alone,
\* "Bearer " and blanks, an unknown token
BadHeaders == {NoHeader, <<>>, Bearer, Bearer \o <<" ", " ">>, Bearer \o <<"x">>}

BearerOf(t) == Bearer \o t

\* "Bearer <token>" for every token ever issued
BearerHeaders == {Bearer \o t : t \in DOMAIN issued}

\* every token ever issued in a padded header, under another scheme, bare
OddHeaders ==
  {Bearer \o <<" ">> \o t \o <<" ">> : t \in DOMAIN issued}
    \cup {<<"B", "a", "s", "i", "c", " ">> \o t : t \in DOMAIN issued}
    \cup {t : t \in DOMAIN issued}

Headers == BadHeaders \cup BearerHeaders \cup OddHeaders

\* the headers of the task requests of Spec
TaskHeaders == {NoHeader, Bearer \o <<"x">>} \cup BearerHeaders

BlankText == <<" ", "\t">>
SixWords == <<" ", "a", " ", "b", " ", " ", "c", "\t", "d", " ", "e", " ", "f", " ">>
TwoWords == <<"g", "h", " ", "i">>

TaskCreate(text, category, project, date) ==
  [text |-> text, category |-> category, project |-> project, date |-> date]

CreatePayloads ==
  {TaskCreate(BlankText, "home", "p", None),
   TaskCreate(TwoWords, "", "", None)}

Patches == {[done |-> TRUE], [text |-> SixWords, category |-> "fun"]}

\* the ids a client may name: every id ever stored, and one never stored
TaskIds == Range(made) \cup {uuid_task(0)}

Env(dburl, legacy) == [dburl |-> dburl, legacy |-> legacy]

OneRecord == ListFile(<<LegacyFull>>)

\* the local SQLite store and a DATABASE_URL store, tasks.json present
Envs == {Env(FALSE, OneRecord), Env(TRUE, OneRecord)}

\* ---------------------------------------------------------- specification
InitIn(envs) ==
  /\ env \in envs
  /\ dbfile = FALSE
  /\ app = "down"
  /\ users = Empty
  /\ sessions = Empty
  /\ tasks = Empty
  /\ now = 0
  /\ resp = NoResponse
  /\ issued = Empty
  /\ revoked = {}
  /\ made = <<>>
  /\ registered = {}
  /\ inflight = Empty

\* The requests, with inputs drawn from the given sets.  A request that would
\* issue a token beyond max_tokens, or store a task beyond max_tasks, is left
\* out; so is a clock reading beyond MaxClock.
\* Each of these requests runs from its first statement to its response with
\* no other request in between; the requests in flight stay where they are.
Startup == on_startup /\ UNCHANGED inflight

Clock == now < MaxClock /\ Tick /\ UNCHANGED inflight

Register(payloads, max_tokens) ==
  \E payload \in payloads :
    /\ register_user(payload)
    /\ Cardinality(DOMAIN issued') <= max_tokens
    /\ UNCHANGED inflight

Login(payloads, max_tokens) ==
  \E payload \in payloads :
    /\ login_user(payload)
    /\ Cardinality(DOMAIN issued') <= max_tokens
    /\ UNCHANGED inflight

Logout(headers) == \E h \in headers : logout_user(h) /\ UNCHANGED inflight

GetTasks(headers) == \E h \in headers : get_tasks(h) /\ UNCHANGED inflight

CreateTask(headers, payloads, max_tasks) ==
  \E h \in headers, payload \in payloads :
    /\ create_task(h, payload)
    /\ Cardinality(generated(made')) <= max_tasks
    /\ UNCHANGED inflight

\* the same, bounding the rows ever stored, imported ones included
CreateFirstTask(headers, payloads, max_rows) ==
  \E h \in headers, payload \in payloads :
    /\ create_task(h, payload)
    /\ Len(made') <= max_rows
    /\ UNCHANGED inflight

UpdateTask(headers, patches) ==
  \E h \in headers, id \in TaskIds, patch \in patches :
    update_task(h, id, patch) /\ UNCHANGED inflight

DeleteTask(headers) ==
  \E h \in headers, id \in TaskIds : delete_task(h, id) /\ UNCHANGED inflight

Init == InitIn(Envs)

Next ==
  \/ Startup
  \/ Clock
  \/ Register(RegisterPayloads, MaxTokens)
  \/ Login(LoginPayloads, MaxTokens)
  \/ Logout(Headers)
  \/ GetTasks(TaskHeaders)
  \/ CreateTask(TaskHeaders, CreatePayloads, MaxTasks)
  \/ UpdateTask(TaskHeaders, Patches)
  \/ DeleteTask(TaskHeaders)

Spec == Init /\ [][Next]_vars

\* -------------------------------------------- the task requests in full
PatchFields == {"text", "category", "project", "date", "done"}

FullPatch ==
  [text |-> SixWords, category |-> "fun", project |-> "",
   date |-> "2024-06-01", done |-> FALSE]

\* the fields a patch sets: none, each one alone, some together, all
PatchShapes ==
  {{}, PatchFields, {"text", "done"}, {"category", "project"}, {"date", "done"}}
    \cup {{f} : f \in PatchFields}

\* a TaskPatch of every shape, and three more: an empty text, a text of
\* blanks, done set to true
AllPatches ==
  {[f \in S |-> FullPatch[f]] : S \in PatchShapes}
    \cup {[text |-> <<>>], [text |-> BlankText, done |-> TRUE], [done |-> TRUE]}

AllCreatePayloads ==
  {TaskCreate(BlankText, "", "", None),
   TaskCreate(<<>>, "home", "p", "2024-05-01"),
   TaskCreate(SixWords, "", "", None),
   TaskCreate(SixWords, "home", "p", "2024-05-01"),
   TaskCreate(TwoWords, "", "p", None),
   TaskCreate(TwoWords, "home", "", "2024-05-01")}

TaskUsers == {Credentials(EmailAUpper, <<"A", " ">>, "pw1")}

TaskLogins == {Credentials(EmailA, <<>>, "pw1"), Credentials(DemoEmail, <<>>, "demo")}

\* Rows created under every payload, listed and deleted.
NextCreate ==
  \/ Startup
  \/ Register(TaskUsers, MaxTokens)
  \/ Login(TaskLogins, MaxTokens)
  \/ GetTasks(BearerHeaders)
  \/ CreateTask(TaskHeaders, AllCreatePayloads, MaxTasks)
  \/ DeleteTask(BearerHeaders)

SpecCreate == Init /\ [][NextCreate]_vars

\* Patches of every shape on one row at a time: the imported row where the
\* import ran, a created row where it did not.
NextPatch ==
  \/ Startup
  \/ Register(TaskUsers, MaxTokens)
  \/ Login(TaskLogins, MaxTokens)
  \/ CreateFirstTask(BearerHeaders, CreatePayloads, MaxTasks)
  \/ UpdateTask(BearerHeaders, AllPatches)

SpecPatch == Init /\ [][NextPatch]_vars

\* ------------------------------------------------------- every tasks.json
\* tasks.json absent, not JSON, a scalar, a list of two records, a list that
\* repeats an id, a list with an item that is no object, an object with one
\* record under "tasks", an object with none
LegacyFiles ==
  {NoFile, BadFile, ScalarFile,
   ListFile(<<LegacyFull, LegacyBare>>),
   ListFile(<<LegacyFull, LegacyFull>>),
   ListFile(<<LegacyBare, JsonOther>>),
   DictFile(<<LegacyBare>>),
   DictFile(<<>>)}

\* both stores under every tasks.json
StartupEnvs == {Env(dburl, legacy) : dburl \in BOOLEAN, legacy \in LegacyFiles}

StartupLogins ==
  {Credentials(EmailA, <<>>, "pw1"), Credentials(DemoEmail, <<>>, "demo")}

InitStartup == InitIn(StartupEnvs)

\* The process started and started again, with requests between the starts.
NextStartup ==
  \/ Startup
  \/ Clock
  \/ Register(TaskUsers, MaxTokens)
  \/ Login(StartupLogins, MaxTokens)
  \/ CreateTask(BearerHeaders, CreatePayloads, MaxTasks)
  \/ DeleteTask(BearerHeaders)

SpecStartup == InitStartup /\ [][NextStartup]_vars

\* ------------------------------------------------- sessions and accounts
\* The auth requests under every header and credential, and get_tasks as the
\* request that resolves a header; no task is written.
NextAuth ==
  \/ Startup
  \/ Register(RegisterPayloads, MaxTokens)
  \/ Login(LoginPayloads, MaxTokens)
  \/ Logout(Headers)
  \/ GetTasks(Headers)

SpecAuth == Init /\ [][NextAuth]_vars

\* --------------------------------------------------------------- ownership
OwnerUsers ==
  {Credentials(EmailAUpper, <<"A", " ">>, "pw1"), Credentials(EmailB, <<"B">>, "pw1")}

OwnerLogins ==
  {Credentials(EmailA, <<>>, "pw1"), Credentials(DemoEmail, <<>>, "demo")}

\* Two registered users and the demo user, each reading and writing tasks
\* under every id ever stored.
NextOwner ==
  \/ Startup
  \/ Register(OwnerUsers, MaxTokens)
  \/ Login(OwnerLogins, MaxTokens)
  \/ GetTasks(BearerHeaders)
  \/ CreateTask(BearerHeaders, CreatePayloads, MaxTasks)
  \/ UpdateTask(BearerHeaders, {[done |-> TRUE]})
  \/ DeleteTask(BearerHeaders)

SpecOwner == Init /\ [][NextOwner]_vars

\* ------------------------------------------------------ tasks and sessions
\* the place of an issued token in the order of issue
token_index(t) == CHOOSE n \in 1..Cardinality(DOMAIN issued) : token_of(n) = t

\* the first token issued to the user
first_token(uid) ==
  CHOOSE t \in DOMAIN issued :
    /\ issued[t] = uid
    /\ \A t2 \in DOMAIN issued :
         issued[t2] = uid => token_index(t) <= token_index(t2)

\* "Bearer <token>" for the first token of every user that holds one
FirstHeaders == {BearerOf(first_token(issued[t])) : t \in DOMAIN issued}

\* Every user creates tasks under the first token issued to them only, and
\* logs in and out and lists under every token.
NextSession ==
  \/ Startup
  \/ Register(TaskUsers, MaxTokens)
  \/ Login(TaskLogins, MaxTokens)
  \/ Logout(BearerHeaders)
  \/ GetTasks(BearerHeaders)
  \/ CreateTask(FirstHeaders, CreatePayloads, MaxTasks)

SpecSession == Init /\ [][NextSession]_vars

\* ------------------------------------------------------- the auth guard
\* The task requests under every header: none, empty, "Bearer " alone or
\* with blanks, an unknown token, and every issued token, live or revoked,
\* plain, padded, under another scheme and bare.
NextGuard ==
  \/ Startup
  \/ Register(TaskUsers, MaxTokens)
  \/ Login(TaskLogins, MaxTokens)
  \/ Logout(BearerHeaders)
  \/ GetTasks(Headers)
  \/ CreateFirstTask(Headers, CreatePayloads, MaxTasks)
  \/ UpdateTask(Headers, {[done |-> TRUE]})
  \/ DeleteTask(Headers)

SpecGuard == Init /\ [][NextGuard]_vars

\* ------------------------------------------------------------ list order
\* a record with the createdAt of LegacyFull under another id
LegacyTwin ==
  JsonObject([id |-> <<"legacy", 2>>, text |-> OldText, createdAt |-> 0])

\* the local store, and a DATABASE_URL store whose tasks.json holds two
\* records of one createdAt
OrderEnvs ==
  {Env(FALSE, OneRecord), Env(TRUE, ListFile(<<LegacyFull, LegacyTwin>>))}

InitOrder == InitIn(OrderEnvs)

\* Tasks imported and created at the readings of the clock, and listed.
NextOrder ==
  \/ Startup
  \/ Clock
  \/ Register(TaskUsers, MaxTokens)
  \/ Login(TaskLogins, MaxTokens)
  \/ GetTasks(BearerHeaders)
  \/ CreateTask(BearerHeaders, CreatePayloads, MaxTasks)

SpecOrder == InitOrder /\ [][NextOrder]_vars

\* ------------------------------------------------------ requests in flight
\* FastAPI runs the handlers (plain def) on a thread pool, each with its own
\* database session: between two round trips of one request to the store,
\* other requests may run.  A request in flight is held under the name of
\* its thread with what it has read so far.
Threads == {"r1", "r2"}

\* a store error that no handler catches: the response is 500
ServerError(op, line, detail, uid, task) ==
  Response(op, line, 500, detail, uid, <<>>, task, <<>>)

\* register_user up to the existence check (lines 312-318)
register_check(r, payload) ==
  LET email == normal_email(payload.email)
  IN /\ app = "up"
     /\ r \notin DOMAIN inflight
     /\ IF email_taken(users, email)
        THEN /\ resp' = Response("register_user", 316, 400, "email exists",
                                 NoId, <<>>, NoId, <<>>)
             /\ UNCHANGED inflight
        ELSE /\ inflight' = Put(inflight, r,
                               [op |-> "register_user", payload |-> payload])
             /\ resp' = NoResponse
     /\ UNCHANGED <<env, dbfile, app, users, sessions, tasks, now,
                    issued, revoked, made, registered>>

\* register_user from the insert on (lines 320-332): the commit of the row
\* raises IntegrityError when its e-mail has been stored meanwhile (line 51)
register_commit(r) ==
  LET payload == inflight[r].payload
      email == normal_email(payload.email)
      id == generate_user_id
      name == IF strip(payload.name) # <<>> THEN strip(payload.name) ELSE email
      user == UserORM(id, email, name, hash_password(payload.password), now)
      token == create_session
  IN /\ r \in DOMAIN inflight
     /\ inflight[r].op = "register_user"
     /\ inflight' = Drop(inflight, {r})
     /\ IF email_taken(users, email)
        THEN /\ resp' = ServerError("register_user", 328, "IntegrityError", NoId, NoId)
             /\ UNCHANGED <<users, sessions, issued, registered>>
        ELSE /\ users' = Put(users, id, user)
             /\ sessions' = Put(sessions, token, id)
             /\ issued' = Put(issued, token, id)
             /\ registered' = registered \cup
                  {[email |-> payload.email, password |-> payload.password, id |-> id]}
             /\ resp' = Response("register_user", 332, 200, "", id, token, NoId, <<>>)
     /\ UNCHANGED <<env, dbfile, app, tasks, now, revoked, made>>

\* update_task up to the query (lines 414-421): the row is loaded
update_query(r, authorization, task_id, patch) ==
  LET auth == get_current_user(authorization)
  IN /\ app = "up"
     /\ r \notin DOMAIN inflight
     /\ IF auth.status # 200
        THEN /\ resp' = Rejected("update_task", auth)
             /\ UNCHANGED inflight
        ELSE IF ~own_task(task_id, auth.user)
        THEN /\ resp' = NotFound("update_task", 421, auth.user, task_id)
             /\ UNCHANGED inflight
        ELSE /\ inflight' = Put(inflight, r,
                               [op |-> "update_task", stage |-> "loaded",
                                user |-> auth.user, task |-> task_id,
                                patch |-> patch, read |-> tasks[task_id]])
             /\ resp' = NoResponse
     /\ UNCHANGED <<env, dbfile, app, users, sessions, tasks, now,
                    issued, revoked, made, registered>>

\* the columns the flush writes: those whose value differs from the loaded one
dirty(read, patch) ==
  {f \in DOMAIN read : apply_patch(read, patch)[f] # read[f]}

\* update_task from the assignments to db.commit() (lines 423-439): the
\* UPDATE of the dirty columns WHERE id = task_id; when it matches no row
\* the session raises StaleDataError
update_commit(r) ==
  LET q == inflight[r]
      new == apply_patch(q.read, q.patch)
      cols == dirty(q.read, q.patch)
  IN /\ r \in DOMAIN inflight
     /\ q.op = "update_task" /\ q.stage = "loaded"
     /\ IF cols = {}
        THEN /\ inflight' = [inflight EXCEPT ![r].stage = "committed"]
             /\ resp' = NoResponse
             /\ UNCHANGED tasks
        ELSE IF q.task \notin DOMAIN tasks
        THEN /\ inflight' = Drop(inflight, {r})
             /\ resp' = ServerError("update_task", 439, "StaleDataError", q.user, q.task)
             /\ UNCHANGED tasks
        ELSE /\ inflight' = [inflight EXCEPT ![r].stage = "committed"]
             /\ resp' = NoResponse
             /\ tasks' = [tasks EXCEPT ![q.task] =
                            [f \in DOMAIN @ |-> IF f \in cols THEN new[f] ELSE @[f]]]
     /\ UNCHANGED <<env, dbfile, app, users, sessions, now, issued, revoked,
                    made, registered>>

\* update_task from db.refresh(task) to the response (lines 440-441): the
\* row is read again; when it is gone the session raises InvalidRequestError
update_refresh(r) ==
  LET q == inflight[r]
  IN /\ r \in DOMAIN inflight
     /\ q.op = "update_task" /\ q.stage = "committed"
     /\ inflight' = Drop(inflight, {r})
     /\ resp' = IF q.task \in DOMAIN tasks
                THEN Response("update_task", 441, 200, "", q.user, <<>>,
                              q.task, <<Task(tasks[q.task])>>)
                ELSE ServerError("update_task", 440, "InvalidRequestError",
                                 q.user, q.task)
     /\ UNCHANGED <<env, dbfile, app, users, sessions, tasks, now,
                    issued, revoked, made, registered>>

RegisterCheck(payloads) == \E r \in Threads, payload \in payloads : register_check(r, payload)

RegisterCommit(max_tokens) ==
  \E r \in Threads :
    /\ register_commit(r)
    /\ Cardinality(DOMAIN issued') <= max_tokens

UpdateQuery(headers, patches) ==
  \E r \in Threads, h \in headers, id \in TaskIds, patch \in patches :
    update_query(r, h, id, patch)

UpdateCommit == \E r \in Threads : update_commit(r)

UpdateRefresh == \E r \in Threads : update_refresh(r)

\* Registrations of one e-mail in several spellings, two at a time.
NextRegisterRace ==
  \/ Startup
  \/ RegisterCheck(RegisterPayloads)
  \/ RegisterCommit(MaxTokens)
  \/ Login(LoginPayloads, MaxTokens)
  \/ Logout(BearerHeaders)

SpecRegisterRace == Init /\ [][NextRegisterRace]_vars

\* Patches of one task two at a time, and deletes between their round trips.
NextPatchRace ==
  \/ Startup
  \/ Register(TaskUsers, MaxTokens)
  \/ Login(TaskLogins, MaxTokens)
  \/ CreateFirstTask(BearerHeaders, CreatePayloads, MaxTasks)
  \/ UpdateQuery(BearerHeaders, Patches)
  \/ UpdateCommit
  \/ UpdateRefresh
  \/ DeleteTask(BearerHeaders)

SpecPatchRace == Init /\ [][NextPatchRace]_vars

\* ------------------------------------------------------------ properties

\* C1: a token create_session returned resolves to the user it was issued to
\* in every state until logout_user is called with it, and is rejected with
\* 401 in every state after that, whatever happens later (new logins of the
\* same user included).
C1_TokenResolvesUntilRevoked ==
  \A t \in DOMAIN issued :
    LET auth == get_current_user(BearerOf(t))
    IN IF t \in revoked
       THEN auth.status = 401
       ELSE auth.status = 200 /\ auth.user = issued[t]

\* a request with a dead token was just rejected while its user, who logged
\* out of one token, holds a later one
C1_Witness ==
  /\ resp.op = "get_tasks" /\ resp.status = 401 /\ resp.line = 207
  /\ \E t \in revoked, t2 \in DOMAIN sessions : issued[t2] = issued[t]

\* C3: whoever registered with (email, name, password) is authenticated by
\* login_user with the same email and password in every later state, as the
\* user id register_user returned.
C3_RegisterThenLogin ==
  \A r \in registered :
    authenticate(Credentials(r.email, <<>>, r.password)) = r.id

\* a login has just succeeded for a user who registered an upper-case e-mail,
\* after a logout
C3_Witness ==
  /\ resp.op = "login_user" /\ resp.status = 200
  /\ revoked # {}
  /\ \E r \in registered : r.id = resp.user /\ r.email = EmailAUpper

unknown_email(payload) == ~email_taken(users, strip(lower(payload.email)))

wrong_password(payload) ==
  \E u \in DOMAIN users :
    /\ users[u].email = strip(lower(payload.email))
    /\ users[u].password_hash # hash_password(payload.password)

BadLogin ==
  Response("login_user", 341, 400, "bad email or password", NoId, <<>>, NoId, <<>>)

\* C4: login_user answers an unregistered e-mail and a wrong password with
\* the same status and message, and in both cases no session is created and
\* no table changes.
C4_LoginFailureUniform ==
  [][resp'.op = "login_user" =>
       \A payload \in LoginPayloads :
         (login_user(payload) /\ (unknown_email(payload) \/ wrong_password(payload)))
           => /\ resp' = BadLogin
              /\ UNCHANGED <<users, sessions, tasks, issued>>]_vars

\* a login has just failed in a state where every e-mail a client may send is
\* registered: the password was wrong
C4_Witness ==
  /\ resp = BadLogin
  /\ \A payload \in LoginPayloads : ~unknown_email(payload)

\* a header that names no live session
no_live_token(h) ==
  \/ h = NoHeader
  \/ ~startswith(h, Bearer)
  \/ strip(after_first_space(h)) = <<>>
  \/ strip(after_first_space(h)) \notin DOMAIN sessions

\* C5: logout_user with no header, a header without "Bearer ", an empty
\* token, an unknown token or a revoked token answers 204 and leaves the
\* sessions, the users and the tasks as they were.
C5_LogoutIdempotent ==
  [][resp'.op = "logout_user" =>
       \A h \in Headers :
         (logout_user(h) /\ no_live_token(h))
           => /\ resp'.status = 204
              /\ UNCHANGED <<users, sessions, tasks>>]_vars

\* a second logout was just answered: a token is revoked, no session is live,
\* and the request took the header-less path while a session of another
\* token had been revoked before
C5_Witness ==
  /\ resp.op = "logout_user" /\ resp.status = 204 /\ resp.line = 354
  /\ revoked # {}
  /\ DOMAIN sessions # {}

unique_emails(us) ==
  \A u1, u2 \in DOMAIN us :
    strip(lower(us[u1].email)) = strip(lower(us[u2].email)) => u1 = u2

\* C9: no two users ever hold the same lower-cased, trimmed e-mail;
\* register_user with an e-mail whose normal form is stored answers 400 and
\* creates neither a user nor a session.
C9_EmailUnique ==
  [][/\ users' # users => unique_emails(users')
     /\ resp'.op = "register_user" =>
          \A payload \in RegisterPayloads :
            (register_user(payload)
               /\ email_taken(users, strip(lower(payload.email))))
              => /\ resp'.status = 400
                 /\ UNCHANGED <<users, sessions, issued>>]_vars

\* a register was just refused for an e-mail stored from its upper-case form
C9_Witness ==
  /\ resp.op = "register_user" /\ resp.status = 400
  /\ \E r \in registered : r.email = EmailAUpper
  /\ Cardinality(DOMAIN users) >= 2

changed(id) == id \notin DOMAIN tasks' \/ tasks'[id] # tasks[id]

TaskWrites == {"update_task", "delete_task"}

\* C2: a task of owner A is never in what get_tasks returns to another user
\* B, and update_task and delete_task by B on its id answer 404 and leave
\* every task as it was; a row changes or goes only in its owner's request.
C2_OwnerIsolation ==
  [][/\ \A id \in DOMAIN tasks :
          changed(id) => /\ resp'.op \in TaskWrites
                         /\ resp'.task = id
                         /\ resp'.user = tasks[id].user_id
     /\ (/\ resp'.op \in TaskWrites
         /\ resp'.user # NoId
         /\ resp'.task \in DOMAIN tasks
         /\ tasks[resp'.task].user_id # resp'.user)
          => resp'.status = 404 /\ tasks' = tasks
     /\ (resp'.op = "get_tasks" /\ resp'.status = 200)
          => \A i \in 1..Len(resp'.body) :
               /\ resp'.body[i].id \in DOMAIN tasks
               /\ tasks[resp'.body[i].id].user_id = resp'.user]_vars

\* an update of a stored task of another user was just answered 404
C2_Witness ==
  /\ resp.op = "update_task" /\ resp.status = 404
  /\ resp.user # NoId
  /\ resp.task \in DOMAIN tasks
  /\ tasks[resp.task].user_id # resp.user

\* the ids of the rows that were stored and are gone
deleted == Range(made) \ DOMAIN tasks

\* C8: a successful delete_task removes the row for good: the id is in no
\* later state of the table, in no later list, and every later update_task
\* or delete_task of it (a second delete included) answers 404.
C8_DeletePermanent ==
  [][/\ \A id \in deleted : id \notin DOMAIN tasks'
     /\ (resp'.op = "delete_task" /\ resp'.status = 204)
          => resp'.task \in DOMAIN tasks /\ resp'.task \notin DOMAIN tasks'
     /\ (resp'.op \in TaskWrites /\ resp'.user # NoId /\ resp'.task \in deleted)
          => resp'.status = 404
     /\ (resp'.op = "get_tasks" /\ resp'.status = 200)
          => \A i \in 1..Len(resp'.body) : resp'.body[i].id \notin deleted]_vars

\* a delete of an id that had been deleted was just answered 404
C8_Witness ==
  /\ resp.op = "delete_task" /\ resp.status = 404
  /\ resp.user # NoId
  /\ resp.task \in deleted

\* the fields of a row no patch may set
Kept == {"id", "createdAt", "user_id"}

\* "Bearer <token>" for every live token of the user
HeadersOf(uid) == {BearerOf(t) : t \in {x \in DOMAIN sessions : sessions[x] = uid}}

\* the title is the first five words of the text, single blanks between
\* them, or the placeholder when the text holds no word
derived(title, text) ==
  IF split(text) = <<>> THEN title = Placeholder
  ELSE split(title) = take(split(text), 5) /\ title = join(split(title))

\* C6: update_task by the owner sets each of text, category, project, date
\* and done that the patch holds to the patch's value and keeps each one it
\* does not hold; title changes only with text, to the title derived from the
\* new text; nothing else of the row and no other row changes.
C6_PatchIsPartial ==
  [][(resp'.op = "update_task" /\ resp'.status = 200) =>
       \A h \in HeadersOf(resp'.user), patch \in AllPatches :
         update_task(h, resp'.task, patch)
           => LET id == resp'.task
              IN /\ DOMAIN tasks' = DOMAIN tasks
                 /\ \A other \in DOMAIN tasks \ {id} : tasks'[other] = tasks[other]
                 /\ \A f \in PatchFields :
                      tasks'[id][f] =
                        IF f \in DOMAIN patch THEN patch[f] ELSE tasks[id][f]
                 /\ \A f \in Kept : tasks'[id][f] = tasks[id][f]
                 /\ IF "text" \in DOMAIN patch
                    THEN derived(tasks'[id].title, patch["text"])
                    ELSE tasks'[id].title = tasks[id].title
                 /\ resp'.body = <<Task(tasks'[id])>>]_vars

\* a patch of done alone was just applied to the imported row, whose title
\* is not the first words of its text: category, project and title are kept
C6_Witness ==
  /\ resp.op = "update_task" /\ resp.status = 200
  /\ resp.body[1].done = FALSE
  /\ resp.body[1].category = "home" /\ resp.body[1].project = "p"
  /\ resp.body[1].title = <<"O">>

\* C7: create_task with a text that is empty once trimmed answers 400 and adds
\* no task; otherwise it adds exactly one task, owned by the caller, whose
\* text is the trimmed text, whose title is the first five whitespace
\* separated words of it joined by single blanks, which is not done, and
\* whose category is "work" and project "" when the payload gives none.
C7_CreateTask ==
  [][(resp'.op = "create_task" /\ resp'.user # NoId) =>
       \A h \in HeadersOf(resp'.user), payload \in AllCreatePayloads :
         create_task(h, payload)
           => IF strip(payload.text) = <<>>
              THEN resp'.status = 400 /\ tasks' = tasks
              ELSE \E id \in DOMAIN tasks' \ DOMAIN tasks :
                     LET row == tasks'[id]
                     IN /\ resp'.status = 200
                        /\ DOMAIN tasks' = DOMAIN tasks \cup {id}
                        /\ \A old \in DOMAIN tasks : tasks'[old] = tasks[old]
                        /\ row.user_id = resp'.user
                        /\ row.text = strip(payload.text)
                        /\ split(row.title) = take(split(payload.text), 5)
                        /\ row.title = join(split(row.title))
                        /\ row.done = FALSE
                        /\ payload.category = "" => row.category = "work"
                        /\ payload.category # "" => row.category = payload.category
                        /\ payload.project = "" => row.project = ""
                        /\ payload.project # "" => row.project = payload.project
                        /\ resp'.body = <<Task(row)>>]_vars

\* a task of six words was just created with no category: five words titled
C7_Witness ==
  /\ resp.op = "create_task" /\ resp.status = 200
  /\ resp.body[1].title = <<"a", " ", "b", " ", "c", " ", "d", " ", "e">>
  /\ resp.body[1].category = "work" /\ resp.body[1].project = ""
  /\ resp.body[1].text = strip(SixWords)

\* the users holding the demo e-mail
demo_users(us) == {u \in DOMAIN us : us[u].email = DemoEmail}

\* C10: a startup of a process that has started before, on the store the
\* earlier startup left and with the same tasks.json, leaves as many tasks
\* and as many demo users as it found, on the local SQLite store and on a
\* DATABASE_URL store alike.
C10_MigrationIdempotent ==
  [][(app # "down" /\ on_startup) =>
       /\ Cardinality(DOMAIN tasks') = Cardinality(DOMAIN tasks)
       /\ Cardinality(demo_users(users')) = Cardinality(demo_users(users))]_vars

\* a DATABASE_URL store that imported two records and has started again
C10_Witness ==
  /\ env.dburl
  /\ app = "failed"
  /\ Cardinality(DOMAIN tasks) = 2
  /\ Cardinality(demo_users(users)) = 1
  /\ \E t \in DOMAIN tasks : t[1] = "legacy"

\* tasks.json is a list, or an object with a list under "tasks", of objects
\* no two of which give the same id
well_formed(file) ==
  /\ file.kind \in {"list", "dict"}
  /\ \A k \in 1..Len(file.items) : file.items[k].object
  /\ \A i, j \in 1..Len(file.items) :
       (/\ get(file.items[i], "id", NoId) # NoId
        /\ get(file.items[i], "id", NoId) = get(file.items[j], "id", NoId)) => i = j

\* C11: the first startup of a deployment whose tasks.json is well formed and
\* holds n records ends with one demo user and exactly n tasks, one for each
\* record, all owned by the demo user.
C11_FirstStartupImports ==
  [][(app = "down" /\ ~dbfile /\ well_formed(env.legacy) /\ on_startup) =>
       LET data == tasks_data(env.legacy)
       IN /\ Cardinality(demo_users(users')) = 1
          /\ Cardinality(DOMAIN tasks') = Len(data)
          /\ \A t \in DOMAIN tasks' : tasks'[t].user_id \in demo_users(users')
          /\ \A k \in 1..Len(data) :
               \E t \in DOMAIN tasks' :
                 /\ tasks'[t].text = get(data[k], "text", <<>>)
                 /\ get(data[k], "id", t) = t]_vars

\* tasks.json is there and is not a list or an object of task records
malformed(file) ==
  \/ file.kind \in {"invalid", "scalar"}
  \/ \E k \in 1..Len(file.items) : ~file.items[k].object

\* C12: a startup that finds tasks.json malformed imports no task and
\* completes: the service is up.
C12_MalformedFileTolerated ==
  [][(malformed(env.legacy) /\ on_startup) =>
       /\ app' = "up"
       /\ tasks' = tasks]_vars

\* C13: a startup on a store that an earlier, completed startup initialized
\* writes no user and no task and completes, tasks.json present or not.
C13_LaterStartupIdle ==
  [][(app = "up" /\ on_startup) =>
       /\ users' = users
       /\ tasks' = tasks
       /\ app' = "up"]_vars

AuthOps == {"register_user", "login_user", "logout_user"}

\* C14: tasks belong to the user, not to the session: register, login and
\* logout leave every task as it is, and get_tasks under any live token of a
\* user returns every task of that user as it is stored, each once, whatever
\* token it was created under and whether that token is still live.
C14_TasksOutliveSessions ==
  [][/\ resp'.op \in AuthOps => tasks' = tasks
     /\ (resp'.op = "get_tasks" /\ resp'.status = 200) =>
          /\ Len(resp'.body) = Cardinality(owned(resp'.user))
          /\ \A t \in owned(resp'.user) :
               \E i \in 1..Len(resp'.body) : resp'.body[i] = Task(tasks[t])
     /\ \A t2 \in DOMAIN sessions' :
          /\ get_current_user(BearerOf(t2))'.status = 200
          /\ get_current_user(BearerOf(t2))'.user = issued'[t2]]_vars

\* get_tasks has just returned a created task to a user whose first token,
\* the one the task was created under, is revoked
C14_Witness ==
  /\ resp.op = "get_tasks" /\ resp.status = 200
  /\ resp.body # <<>>
  /\ \A i \in 1..Len(resp.body) : resp.body[i].id[1] = "task"
  /\ first_token(resp.user) \in revoked

TaskOps == {"get_tasks", "create_task", "update_task", "delete_task"}

\* C15: get_tasks, create_task, update_task and delete_task under a header
\* that is absent, lacks the "Bearer " prefix, or carries an empty, unknown
\* or revoked token answer 401, return no task and leave users, sessions and
\* tasks as they were.
C15_TaskOpsNeedSession ==
  [][\A h \in Headers :
       (/\ resp'.op \in TaskOps
        /\ no_live_token(h)
        /\ CASE resp'.op = "get_tasks" -> get_tasks(h)
             [] resp'.op = "create_task" ->
                  \E payload \in CreatePayloads : create_task(h, payload)
             [] resp'.op = "update_task" ->
                  \E id \in TaskIds : update_task(h, id, [done |-> TRUE])
             [] resp'.op = "delete_task" ->
                  \E id \in TaskIds : delete_task(h, id))
         => /\ resp'.status = 401
            /\ resp'.body = <<>>
            /\ UNCHANGED <<users, sessions, tasks>>]_vars

\* a delete of a stored task was just refused under the token its owner
\* logged out of
C15_Witness ==
  /\ resp.op = "delete_task" /\ resp.status = 401 /\ resp.line = 207
  /\ revoked # {}
  /\ \E t \in DOMAIN tasks : \E k \in revoked : issued[k] = tasks[t].user_id

\* the place of a stored id in the order of insertion
inserted_at(id) == CHOOSE k \in 1..Len(made) : made[k] = id

\* C16: get_tasks returns the caller's tasks, each once, in ascending
\* createdAt, and tasks of equal createdAt in the order they were inserted.
C16_ListStable ==
  [][(resp'.op = "get_tasks" /\ resp'.status = 200) =>
       LET body == resp'.body
       IN /\ {body[i].id : i \in 1..Len(body)} = owned(resp'.user)
          /\ Len(body) = Cardinality(owned(resp'.user))
          /\ \A i, j \in 1..Len(body) :
               i < j =>
                 /\ body[i].createdAt <= body[j].createdAt
                 /\ body[i].createdAt = body[j].createdAt
                      => inserted_at(body[i].id) < inserted_at(body[j].id)]_vars

\* C17: of two register_user requests of one normal e-mail that both pass the
\* existence check, one creates the user and the other answers 400; no
\* request answers a store failure, no two users hold one e-mail, and a
\* request that does not answer 200 leaves no user and no session.
C17_RegisterRaceConflict ==
  [][resp'.op = "register_user" =>
       /\ resp'.status \in {200, 400}
       /\ unique_emails(users')
       /\ resp'.status # 200 => UNCHANGED <<users, sessions>>]_vars

\* C18: update_task interleaved with another patch or a delete of its task
\* ends as some serial order of the requests would: it answers 200 with the
\* patched fields at the values of its patch, or 404; its write keeps every
\* field it does not patch at the stored value; a deleted task stays deleted.
C18_PatchAtomic ==
  [][/\ resp'.op = "update_task" => resp'.status \in {200, 401, 404}
     /\ \A r \in DOMAIN inflight :
          (inflight[r].op = "update_task" /\ r \notin DOMAIN inflight'
             /\ resp'.status = 200)
            => \A f \in DOMAIN inflight[r].patch :
                 resp'.body[1][f] = inflight[r].patch[f]
     /\ \A r \in DOMAIN inflight :
          update_commit(r)
            => /\ DOMAIN tasks' = DOMAIN tasks
               /\ \A id \in DOMAIN tasks :
                    \A f \in PatchFields \ DOMAIN inflight[r].patch :
                      tasks'[id][f] = tasks[id][f]
     /\ \A id \in deleted : id \notin DOMAIN tasks']_vars

\* C19: sessions do not touch each other: register_user and login_user leave
\* every token issued before resolving as it did, and logout_user with token
\* t leaves every issued token other than t resolving as it did; a user may
\* hold several live tokens.
C19_SessionsIndependent ==
  [][/\ resp'.op \in {"register_user", "login_user"} =>
          \A t \in DOMAIN issued :
            get_current_user(BearerOf(t))' = get_current_user(BearerOf(t))
     /\ resp'.op = "logout_user" =>
          LET ended == DOMAIN sessions \ DOMAIN sessions'
          IN /\ \A h \in Headers : logout_user(h) => ended \subseteq {header_token(h)}
             /\ \A t \in DOMAIN issued \ ended :
                  get_current_user(BearerOf(t))' = get_current_user(BearerOf(t))]_vars

\* a user who held two live tokens has just logged out of one and the other
\* is live
C19_Witness ==
  /\ resp.op = "logout_user" /\ resp.line = 360
  /\ \E t \in revoked, t2 \in DOMAIN sessions :
       /\ issued[t2] = issued[t]
       /\ get_current_user(BearerOf(t2)).user = issued[t]
       /\ get_current_user(BearerOf(t)).status = 401

\* C20: every task is stored under its own id and owned by one existing
\* user; a task enters the store owned by the caller of create_task or, when
\* imported, by the demo user; and no step changes the owner, the id or the
\* createdAt of a stored task.
C20_OwnerFixed ==
  [][/\ \A id \in DOMAIN tasks' :
          /\ tasks'[id].id = id
          /\ tasks'[id].user_id \in DOMAIN users'
     /\ \A id \in DOMAIN tasks \cap DOMAIN tasks' :
          \A f \in Kept : tasks'[id][f] = tasks[id][f]
     /\ \A id \in DOMAIN tasks' \ DOMAIN tasks :
          IF resp'.op = "create_task"
          THEN tasks'[id].user_id = resp'.user /\ resp'.task = id
          ELSE tasks'[id].user_id \in demo_users(users')]_vars

\* a registered user has just patched their own task while the demo user
\* holds an imported one
C20_Witness ==
  /\ resp.op = "update_task" /\ resp.status = 200
  /\ tasks[resp.task].user_id = resp.user
  /\ resp.user \notin demo_users(users)
  /\ \E t \in DOMAIN tasks : tasks[t].user_id \in demo_users(users)

====
